---- MODULE Spec2Model ----
(***************************************************************************)
(* LateScan attendance stations (App.tsx): each station keeps a list of    *)
(* Late attendance records, a roster, a room code and three localStorage   *)
(* items; stations that share a room code exchange records through a Gun   *)
(* graph reached over relay peers.  One action per handler; the React      *)
(* effects a handler triggers are part of the handler's action.            *)
(***************************************************************************)
EXTENDS Integers, Sequences, FiniteSets, TLC

VARIABLES
    records,          \* station -> list of StudentRecord        (useState, line 51)
    roster,           \* station -> list of StudentProfile       (line 52)
    isScanning,       \* station -> BOOLEAN                      (line 53)
    lastScanned,      \* station -> <<>> (null) or <<record>>    (line 54)
    syncCode,         \* station -> room code, a string of characters (line 60)
    isSyncing,        \* station -> BOOLEAN                      (line 62)
    lastSyncActivity, \* station -> clock reading                (line 63)
    ls,               \* station -> localStorage: code (the string, empty when the
                      \* key is missing: line 60), att and roster items
    subs,             \* station -> set of room codes with a live .on() listener
    seen,             \* station -> records the live listener has been called with
    localGun,         \* station -> {<<room, record>>}: this station's own puts
    graph,            \* {<<room, record>>}: what has reached the relay peers
    up,               \* BOOLEAN: some relay peer is reachable
    clock,            \* Date.now() of the next scan: the stations' clocks agree and
                      \* time moves from one scan, here or at a peer, to the next
    last,             \* history: the step taken last (op), the station it ran on
                      \* (st) and what it met (arg); no handler reads it
    aiAnalysis,       \* station -> <<>> (null) or <<text>>      (line 56)
    isAnalyzing,      \* station -> BOOLEAN                      (line 57)
    mounted,          \* station -> BOOLEAN: the App component is rendered; an
                      \* error thrown by an effect unmounts it
    input,            \* the arguments of a function applied on its own, and
    output            \* <<>> or <<what it returned>>; no handler reads them

vars == <<records, roster, isScanning, lastScanned, syncCode, isSyncing,
          lastSyncActivity, ls, subs, seen, localGun, graph, up, clock, last,
          aiAnalysis, isAnalyzing, mounted, input, output>>

----------------------------------------------------------------------------
(* Bounds *)

\* clock readings run over 0..MaxClock
MaxClock == 3

Stations == {1, 2}

(* Inputs: the identifier scanned, and the roster file imported (it lists
   another student) *)
StudentIds == {"S1"}
RosterFiles == { << [studentId |-> "S2", name |-> "Bea", class |-> "1A"] >> }
CodeInputs == { <<>>, <<" ">>, <<"A">>, <<"A", " ">>, <<"B">> }

----------------------------------------------------------------------------
(* Strings of digits and their order *)

RECURSIVE LexLess(_, _)
LexLess(a, b) ==
    IF b = <<>> THEN FALSE
    ELSE IF a = <<>> THEN TRUE
    ELSE IF Head(a) # Head(b) THEN Head(a) < Head(b)
    ELSE LexLess(Tail(a), Tail(b))

LexGE(a, b) == ~LexLess(a, b)

\* "08:30" as the digits on either side of the colon
LATE_THRESHOLD == <<0, 8, 3, 0>>

\* minutes since midnight of day 0 at clock reading t: the readings of interest
\* are 08:31 of day 0, then 08:29, 08:30 and 08:31 of each next day (the list is
\* not emptied at midnight, so a later scan can have an earlier time string)
MinutesAt(t) == (1440 * ((t + 2) \div 3)) + 509 + ((t + 2) % 3)

MinuteOfDay(t) == MinutesAt(t) % 1440

\* What the engine resolves hour12: false to for en-US: hours 00-23, or hours
\* 01-24 (midnight's hour written 24), as engines following the earlier
\* ECMA-402 rule do
HourCycles == {"h23", "h24"}

\* line 162: toLocaleTimeString('en-US', hour12: false, 2-digit hour and minute)
\* of the local time h:m:sec, as the digits on either side of the colon
toLocaleTimeString(h, m, sec, hourCycle) ==
    LET hh == IF hourCycle = "h24" /\ h = 0 THEN 24 ELSE h
    IN  << hh \div 10, hh % 10, m \div 10, m % 10 >>

\* the time string at clock reading t (its hour is 08 under either hour cycle)
TimeString(t) ==
    toLocaleTimeString(MinuteOfDay(t) \div 60, MinuteOfDay(t) % 60, 0, "h23")

\* toLocaleDateString(): the calendar day of reading t
DateString(t) == MinutesAt(t) \div 1440

----------------------------------------------------------------------------
(* localStorage items: <<>> is a missing key, <<text>> a stored string *)

JSONstringify(v) == [json |-> v]
JSONparse(text) == text.json

\* a string JSON.parse throws on, and whether JSON.parse returns for text
Unparseable == [text |-> "{"]
Parseable(text) == "json" \in DOMAIN text
Truthy(item) == item # <<>>

\* String.prototype.trim on a string of characters
IsSpace(c) == c = " "

RECURSIVE TrimStart(_)
TrimStart(s) ==
    IF s # <<>> /\ IsSpace(Head(s)) THEN TrimStart(Tail(s)) ELSE s

RECURSIVE TrimEnd(_)
TrimEnd(s) ==
    IF s # <<>> /\ IsSpace(s[Len(s)]) THEN TrimEnd(SubSeq(s, 1, Len(s) - 1)) ELSE s

Trim(s) == TrimEnd(TrimStart(s))

----------------------------------------------------------------------------
(* The records list *)

HasId(list, id) == \E i \in DOMAIN list : list[i].id = id
Ids(list) == { list[i].id : i \in DOMAIN list }
Elems(list) == { list[i] : i \in DOMAIN list }

\* insert r into a list sorted by descending arrivalTime, after its equals
RECURSIVE InsertDesc(_, _)
InsertDesc(r, sorted) ==
    IF sorted = <<>> THEN <<r>>
    ELSE IF LexLess(Head(sorted).arrivalTime, r.arrivalTime)
         THEN <<r>> \o sorted
         ELSE <<Head(sorted)>> \o InsertDesc(r, Tail(sorted))

\* Array.prototype.sort (stable) with (a, b) => b.arrivalTime.localeCompare(a.arrivalTime)
RECURSIVE SortDesc(_)
SortDesc(list) ==
    IF list = <<>> THEN <<>>
    ELSE LET n == Len(list)
         IN  InsertDesc(list[n], SortDesc(SubSeq(list, 1, n - 1)))

----------------------------------------------------------------------------
(* The Gun graph *)

\* gun.get('latescan-v2-room-' + syncCode).get('records')
RoomOf(code) == <<"latescan-v2-room-">> \o code

\* what the listener of station s on room can be called with: the station's own
\* puts, and what the relay peers hold while one of them is reachable
Available(s, room) ==
    { e[2] : e \in { x \in localGun[s] : x[1] = room } }
    \cup (IF up THEN { e[2] : e \in { x \in graph : x[1] = room } } ELSE {})

----------------------------------------------------------------------------
(* The effects (useEffect), run after the render a handler causes *)

\* lines 103-105: the roster is reloaded whenever the load effect runs
LoadedRoster(s, cur) ==
    IF Truthy(ls[s].roster) THEN JSONparse(ls[s].roster[1]) ELSE cur

\* the records reloaded whatever the room code
LoadedRecords_Always(s, code, cur) ==
    IF Truthy(ls[s].att) THEN JSONparse(ls[s].att[1]) ELSE cur

\* lines 109-112: the records are reloaded only without a room code
LoadedRecords(s, code, cur) ==
    IF code = <<>> /\ Truthy(ls[s].att) THEN JSONparse(ls[s].att[1]) ELSE cur

\* lines 105 and 111: JSON.parse throws in the load effect, which has no try/catch
LoadThrows(s, code) ==
    \/ Truthy(ls[s].roster) /\ ~Parseable(ls[s].roster[1])
    \/ code = <<>> /\ Truthy(ls[s].att) /\ ~Parseable(ls[s].att[1])

\* the records backed up whatever the room code
PersistedAtt_Always(code, att, recs) == <<JSONstringify(recs)>>

\* lines 120-125: the records are backed up only without a room code
PersistedAtt(code, att, recs) ==
    IF code = <<>> THEN <<JSONstringify(recs)>> ELSE att

\* lines 68-77 and 97-99: the listeners after the sync effect has run for code
SubsFor(code) == IF code = <<>> THEN {} ELSE {RoomOf(code)}

----------------------------------------------------------------------------
(* Initial state: first launch, empty localStorage, after the mount effects *)

StationsInit ==
    /\ records = [s \in Stations |-> <<>>]
    /\ roster = [s \in Stations |-> <<>>]
    /\ isScanning = [s \in Stations |-> FALSE]
    /\ lastScanned = [s \in Stations |-> <<>>]
    /\ syncCode = [s \in Stations |-> <<>>]
    /\ isSyncing = [s \in Stations |-> FALSE]
    /\ lastSyncActivity = [s \in Stations |-> 0]
    /\ ls = [s \in Stations |->
               [code |-> <<>>,
                att |-> <<JSONstringify(<<>>)>>,
                roster |-> <<JSONstringify(<<>>)>>]]
    /\ subs = [s \in Stations |-> {}]
    /\ seen = [s \in Stations |-> {}]
    /\ localGun = [s \in Stations |-> {}]
    /\ graph = {}
    /\ up = TRUE
    /\ clock = 0
    /\ last = [op |-> "init", st |-> 0, arg |-> ""]
    /\ aiAnalysis = [s \in Stations |-> <<>>]
    /\ isAnalyzing = [s \in Stations |-> FALSE]
    /\ mounted = [s \in Stations |-> TRUE]

Init ==
    /\ StationsInit
    /\ input = <<>>
    /\ output = <<>>

----------------------------------------------------------------------------
(* handleScanSuccess, lines 151-199 *)

\* a lookup that finds nobody
FindProfile_None(list, scannedId) == <<>>

\* line 160: roster.find(s => s.studentId === scannedId), <<>> when undefined
FindProfile(list, scannedId) ==
    IF \E i \in DOMAIN list : list[i].studentId = scannedId
    THEN <<list[CHOOSE i \in DOMAIN list :
                  /\ list[i].studentId = scannedId
                  /\ \A j \in DOMAIN list : list[j].studentId = scannedId => i <= j]>>
    ELSE <<>>

\* line 172
StatusOf(timeString) == IF LexGE(timeString, LATE_THRESHOLD) THEN "Late" ELSE "On-Time"

\* lines 160-174: the record built for scannedId from Date.now() (stamp), the
\* local date and the time string
ResultRecordAt(list, scannedId, stamp, dateString, timeString) ==
    LET studentProfile == FindProfile(list, scannedId)
    IN  [id |-> <<stamp, scannedId>>,
         studentId |-> scannedId,
         name |-> IF studentProfile # <<>> /\ studentProfile[1].name # ""
                  THEN studentProfile[1].name
                  ELSE "Unregistered Student",
         class |-> IF studentProfile # <<>> /\ studentProfile[1].class # ""
                   THEN studentProfile[1].class
                   ELSE "N/A",
         arrivalTime |-> timeString,
         date |-> dateString,
         status |-> StatusOf(timeString),
         isVerified |-> studentProfile # <<>>]

\* the record built for scannedId at clock reading now
ResultRecord(list, scannedId, now) ==
    ResultRecordAt(list, scannedId, now, DateString(now), TimeString(now))

\* the update postponed until a relay acknowledges the put
LocalAppend_AfterAck(prev, resultRecord) == prev

\* lines 179-182: the optimistic local update
LocalAppend(prev, resultRecord) ==
    IF HasId(prev, resultRecord.id) THEN prev ELSE <<resultRecord>> \o prev

\* every scan logged, whatever its status
RecordsAfterScan_Always(prev, resultRecord) == LocalAppend(prev, resultRecord)

\* lines 177-187: what a scan does to the records list
RecordsAfterScan(prev, resultRecord) ==
    IF resultRecord.status = "Late" THEN LocalAppend(prev, resultRecord) ELSE prev

\* the put made whether or not a room code is set
PutsAfterScan_NoCodeCheck(puts, code, resultRecord) ==
    IF resultRecord.status = "Late"
    THEN puts \cup {<<RoomOf(code), resultRecord>>}
    ELSE puts

\* lines 184-187: the put of a Late record into the room of the current code
PutsAfterScan(puts, code, resultRecord) ==
    IF resultRecord.status = "Late" /\ code # <<>>
    THEN puts \cup {<<RoomOf(code), resultRecord>>}
    ELSE puts

\* The Scanner is mounted while isScanning (line 430); the operator starting it
\* (line 292) and the frame it then decodes are one step, which ends with
\* isScanning false again (line 198).  Two scans never read the same Date.now().
handleScanSuccess(s, scannedId) ==
    /\ mounted[s]
    /\ clock < MaxClock
    /\ LET resultRecord == ResultRecord(roster[s], scannedId, clock)
           recs == RecordsAfterScan(records[s], resultRecord)
       IN  /\ records' = [records EXCEPT ![s] = recs]
           /\ localGun' = [localGun EXCEPT
                              ![s] = PutsAfterScan(@, syncCode[s], resultRecord)]
           /\ lastScanned' = [lastScanned EXCEPT ![s] = <<resultRecord>>]
           /\ isScanning' = [isScanning EXCEPT ![s] = FALSE]
           /\ ls' = [ls EXCEPT ![s].att = PersistedAtt(syncCode[s], @, recs)]
           /\ last' = [op |-> "scan", st |-> s, arg |-> resultRecord.status]
    /\ clock' = clock + 1
    /\ UNCHANGED <<input, output, aiAnalysis, isAnalyzing, mounted,
                   roster, syncCode, isSyncing, lastSyncActivity, subs, seen,
                   graph, up>>

----------------------------------------------------------------------------
(* The scanner session: the SCAN / STOP button (line 292), and the frames the
   Scanner decodes while it is mounted (line 430, Scanner.tsx lines 28-37) *)

\* line 292
toggleScanning(s) ==
    /\ mounted[s]
    /\ isScanning' = [isScanning EXCEPT ![s] = ~@]
    /\ last' = [op |-> "toggle", st |-> s, arg |-> ""]
    /\ UNCHANGED <<input, output, aiAnalysis, isAnalyzing, mounted,
                   records, roster, lastScanned, syncCode, isSyncing,
                   lastSyncActivity, ls, subs, seen, localGun, graph, up, clock>>

\* line 189: new AudioContext() gives a context that beeps, or throws (no
\* AudioContext in the browser, or too many contexts open: none is ever closed)
AudioOutcomes == {"beeps", "throws"}

\* lines 151-189 when line 189 throws: the record has been queued for the list
\* (lines 179-182) and put (line 186); lines 197-198 are not reached
handleScanThrows(s, scannedId) ==
    /\ mounted[s]
    /\ clock < MaxClock
    /\ LET resultRecord == ResultRecord(roster[s], scannedId, clock)
           recs == RecordsAfterScan(records[s], resultRecord)
       IN  /\ resultRecord.status = "Late"
           /\ records' = [records EXCEPT ![s] = recs]
           /\ localGun' = [localGun EXCEPT
                              ![s] = PutsAfterScan(@, syncCode[s], resultRecord)]
           /\ ls' = [ls EXCEPT ![s].att = PersistedAtt(syncCode[s], @, recs)]
           /\ last' = [op |-> "scan", st |-> s, arg |-> "throws"]
    /\ clock' = clock + 1
    /\ UNCHANGED <<input, output, aiAnalysis, isAnalyzing, mounted,
                   roster, isScanning, lastScanned, syncCode, isSyncing,
                   lastSyncActivity, subs, seen, graph, up>>

\* Scanner.tsx lines 31-33: the running scanner decodes a frame and calls
\* onScanSuccess, the handleScanSuccess of the render that mounted it
onScanSuccess(s, scannedId, audio) ==
    /\ isScanning[s]
    /\ IF audio = "throws" /\ StatusOf(TimeString(clock)) = "Late"
       THEN handleScanThrows(s, scannedId)
       ELSE handleScanSuccess(s, scannedId)

----------------------------------------------------------------------------
(* The decoding of the scanned text, lines 152-158.  JavaScript values carry
   their type: the string "7" and the number 7 are different values *)

Str(t) == [string |-> t]
Num(n) == [number |-> n]
Null == [null |-> TRUE]
Undefined == [undefined |-> TRUE]
Obj(studentId, id) == [object |-> [studentId |-> studentId, id |-> id]]

\* the value in a condition: '' and 0, null and undefined are falsy
JsTruthy(v) == v \notin {Str(""), Num(0), Null, Undefined}

\* String(v), as a template literal applies it
JsString(v) ==
    IF "string" \in DOMAIN v THEN v.string
    ELSE IF "number" \in DOMAIN v THEN ToString(v.number)
    ELSE IF "null" \in DOMAIN v THEN "null"
    ELSE IF "undefined" \in DOMAIN v THEN "undefined"
    ELSE "[object Object]"

\* a text that is not JSON, and the JSON text of a value
PlainText(t) == [raw |-> t]
JsonText(v) ==
    [raw |-> IF "object" \in DOMAIN v THEN ToString(v.object) ELSE JsString(v),
     json |-> v]

\* parsed[key]: undefined on a number or a string, a TypeError on null
Property(parsed, key) ==
    IF "object" \in DOMAIN parsed THEN parsed.object[key] ELSE Undefined

\* lines 152-158: scannedId for decodedText.  JSON.parse throws on a text that
\* is not JSON and parsed.studentId throws on null; both are caught (line 156)
DecodeScan(decodedText) ==
    IF ~Parseable(decodedText) \/ JSONparse(decodedText) = Null
    THEN Str(decodedText.raw)
    ELSE LET parsed == JSONparse(decodedText)
             studentId == Property(parsed, "studentId")
             id == Property(parsed, "id")
         IN  IF JsTruthy(studentId) THEN studentId
             ELSE IF JsTruthy(id) THEN id
             ELSE Str(decodedText.raw)

----------------------------------------------------------------------------
(* The listener of the sync effect, lines 79-95 *)

\* the merge keyed by the student instead of the record id
MergeInbound_ByStudent(prev, data) ==
    IF \E i \in DOMAIN prev : prev[i].studentId = data.studentId
    THEN prev
    ELSE SortDesc(<<data>> \o prev)

\* the merge without the exists check of lines 86-87
MergeInbound_NoDedup(prev, data) == SortDesc(<<data>> \o prev)

\* the merge that keeps the inbound record only
MergeInbound_Latest(prev, data) ==
    IF HasId(prev, data.id) THEN prev ELSE <<data>>

\* the merge that overwrites the stored record of the same id
MergeInbound_Overwrite(prev, data) ==
    IF HasId(prev, data.id)
    THEN [i \in DOMAIN prev |-> IF prev[i].id = data.id THEN data ELSE prev[i]]
    ELSE SortDesc(<<data>> \o prev)

\* lines 84-94: the merge of an inbound record into the list
MergeInbound(prev, data) ==
    IF HasId(prev, data.id) THEN prev ELSE SortDesc(<<data>> \o prev)

\* what the listener can be called with besides the records of the room: a
\* null (a node that was put as null), and a node without an id
NullPayload == [null |-> TRUE]
MalformedPayloads ==
    { NullPayload, [studentId |-> "S1", name |-> "Unregistered Student"] }

\* line 80: the payload passes if (!data || !data.id) return
Admissible(data) ==
    /\ data # NullPayload
    /\ "id" \in DOMAIN data
    /\ data.id # <<>>

\* Gun calls the listener of station s on room with data
Deliver(s, room, data) ==
    /\ mounted[s]
    /\ room \in subs[s]
    /\ data \in MalformedPayloads \/ data \in Available(s, room)
    /\ IF ~Admissible(data)
       THEN /\ last' = [op |-> "deliver", st |-> s, arg |-> "discarded"]
            /\ UNCHANGED <<records, ls, seen, lastSyncActivity>>
       ELSE /\ seen' = [seen EXCEPT ![s] = @ \cup {data}]
            /\ lastSyncActivity' = [lastSyncActivity EXCEPT ![s] = clock]
            /\ LET recs == MergeInbound(records[s], data)
               IN  /\ records' = [records EXCEPT ![s] = recs]
                   /\ ls' = [ls EXCEPT ![s].att = PersistedAtt(syncCode[s], @, recs)]
            /\ last' = [op |-> "deliver", st |-> s,
                        arg |-> IF HasId(records[s], data.id) THEN "known" ELSE "new"]
    /\ UNCHANGED <<input, output, aiAnalysis, isAnalyzing, mounted,
                   roster, isScanning, lastScanned, syncCode, isSyncing, subs,
                   localGun, graph, up, clock>>

----------------------------------------------------------------------------
(* saveSyncCode, lines 205-211, and the effects of a changed syncCode *)

\* the list kept when a room is joined
RecordsAfterSave_Kept(cleanCode, prev) == prev

\* line 209
RecordsAfterSave(cleanCode, prev) == IF cleanCode # <<>> THEN <<>> ELSE prev

\* the new listener added with the old one left on (no cleanup)
SubsAfterSave_NoOff(s, cleanCode) ==
    IF cleanCode = syncCode[s] THEN subs[s] ELSE subs[s] \cup SubsFor(cleanCode)

\* lines 97-99 then 68-77: the cleanup of the old listener and the new one
SubsAfterSave(s, cleanCode) ==
    IF cleanCode = syncCode[s] THEN subs[s] ELSE SubsFor(cleanCode)

\* An effect of station s throws while the code is code.  No error boundary is
\* above App, so React unmounts it: the effects declared after the throwing one
\* do not run (nothing is persisted), the cleanup of the sync effect does, and
\* nothing is rendered until the page is loaded again.
EffectThrows(s, code) ==
    /\ mounted' = [mounted EXCEPT ![s] = FALSE]
    /\ syncCode' = [syncCode EXCEPT ![s] = code]
    /\ records' = [records EXCEPT ![s] = <<>>]
    /\ roster' = [roster EXCEPT ![s] = <<>>]
    /\ isScanning' = [isScanning EXCEPT ![s] = FALSE]
    /\ lastScanned' = [lastScanned EXCEPT ![s] = <<>>]
    /\ isSyncing' = [isSyncing EXCEPT ![s] = FALSE]
    /\ lastSyncActivity' = [lastSyncActivity EXCEPT ![s] = 0]
    /\ aiAnalysis' = [aiAnalysis EXCEPT ![s] = <<>>]
    /\ isAnalyzing' = [isAnalyzing EXCEPT ![s] = FALSE]
    /\ subs' = [subs EXCEPT ![s] = {}]
    /\ seen' = [seen EXCEPT ![s] = {}]

saveSyncCode(s, code) ==
    LET cleanCode == Trim(code)
        changed == cleanCode # syncCode[s]
        set == RecordsAfterSave(cleanCode, records[s])
        recs == IF changed THEN LoadedRecords(s, cleanCode, set) ELSE set
    IN  /\ mounted[s]
        /\ IF changed /\ LoadThrows(s, cleanCode)
           THEN /\ EffectThrows(s, cleanCode)
                /\ ls' = [ls EXCEPT ![s].code = cleanCode]
                /\ last' = [op |-> "save", st |-> s, arg |-> "throws"]
           ELSE /\ syncCode' = [syncCode EXCEPT ![s] = cleanCode]
                /\ records' = [records EXCEPT ![s] = recs]
                /\ roster' = [roster EXCEPT
                                 ![s] = IF changed THEN LoadedRoster(s, @) ELSE @]
                /\ subs' = [subs EXCEPT ![s] = SubsAfterSave(s, cleanCode)]
                /\ seen' = [seen EXCEPT ![s] = IF changed THEN {} ELSE @]
                /\ isSyncing' = [isSyncing EXCEPT
                                    ![s] = IF changed THEN cleanCode # <<>> ELSE @]
                /\ ls' = [ls EXCEPT ![s].code = cleanCode,
                                    ![s].att = PersistedAtt(cleanCode, @, recs)]
                /\ last' = [op |-> "save", st |-> s,
                            arg |-> IF ~changed THEN "same"
                                    ELSE IF cleanCode = <<>> THEN "leave" ELSE "join"]
                /\ UNCHANGED <<aiAnalysis, isAnalyzing, mounted, isScanning,
                               lastScanned, lastSyncActivity>>
        /\ UNCHANGED <<input, output, localGun, graph, up, clock>>

----------------------------------------------------------------------------
(* The listener called with a node that lacks fields, lines 79-95 and 239-246 *)

\* a node of the room that has an id and only some of a record's fields, as
\* Gun hands it over while the rest has not arrived, or as another client put it
PartialPayloads ==
    { [id |-> <<0, "S1">>, studentId |-> "S1", name |-> "Ann"] }

\* The listener of station s on room is called with a payload that passes line
\* 80 and has no arrivalTime.  When its id is not in the list it is put in
\* front of the list (line 89); then b.arrivalTime.localeCompare throws in the
\* sort (lines 91-93), or, where the comparator is not called with it as b (a
\* list of one record), r.arrivalTime.split throws in chartData (line 242).
\* Both run while App renders, and the error unmounts it.
DeliverPartial(s, room, data) ==
    /\ mounted[s]
    /\ room \in subs[s]
    /\ data \in PartialPayloads
    /\ Admissible(data)
    /\ IF HasId(records[s], data.id)
       THEN /\ lastSyncActivity' = [lastSyncActivity EXCEPT ![s] = clock]
            /\ last' = [op |-> "deliver", st |-> s, arg |-> "known"]
            /\ UNCHANGED <<records, roster, isScanning, lastScanned, syncCode,
                           isSyncing, aiAnalysis, isAnalyzing, mounted, subs,
                           seen>>
       ELSE /\ EffectThrows(s, syncCode[s])
            /\ last' = [op |-> "deliver", st |-> s, arg |-> "throws"]
    /\ UNCHANGED <<input, output, ls, localGun, graph, up, clock>>

----------------------------------------------------------------------------
(* clearRecords, lines 213-219 (the confirm dialog accepted) *)

\* a clear that also deletes the room's records at the relay peers
clearRecords_Everywhere(s) ==
    /\ mounted[s]
    /\ records' = [records EXCEPT ![s] = <<>>]
    /\ lastScanned' = [lastScanned EXCEPT ![s] = <<>>]
    /\ aiAnalysis' = [aiAnalysis EXCEPT ![s] = <<>>]
    /\ ls' = [ls EXCEPT ![s].att = PersistedAtt(syncCode[s], @, <<>>)]
    /\ graph' = { e \in graph : e[1] # RoomOf(syncCode[s]) }
    /\ last' = [op |-> "clear", st |-> s, arg |-> ""]
    /\ UNCHANGED <<input, output, isAnalyzing, mounted,
                   roster, isScanning, syncCode, isSyncing, lastSyncActivity,
                   subs, seen, localGun, up, clock>>

clearRecords(s) ==
    /\ mounted[s]
    /\ records' = [records EXCEPT ![s] = <<>>]
    /\ lastScanned' = [lastScanned EXCEPT ![s] = <<>>]
    /\ aiAnalysis' = [aiAnalysis EXCEPT ![s] = <<>>]
    /\ ls' = [ls EXCEPT ![s].att = PersistedAtt(syncCode[s], @, <<>>)]
    /\ last' = [op |-> "clear", st |-> s, arg |-> ""]
    /\ UNCHANGED <<input, output, isAnalyzing, mounted,
                   roster, isScanning, syncCode, isSyncing, lastSyncActivity,
                   subs, seen, localGun, graph, up, clock>>

----------------------------------------------------------------------------
(* excelService.ts: a sheet is the list of its rows, a row maps the headers of
   its non-empty cells to their text *)

\* row[key], "" when the row has no such cell (undefined)
Cell(row, key) == IF key \in DOMAIN row THEN row[key] ELSE ""

\* a || b on strings
Or(a, b) == IF a # "" THEN a ELSE b

\* the profile read from the roster's own headers only
ProfileOf_OwnHeaders(row) ==
    [studentId |-> Cell(row, "studentId"),
     name |-> Or(Cell(row, "name"), "Unknown"),
     class |-> Or(Cell(row, "class"), "N/A")]

\* excelService.ts lines 41-45
ProfileOf(row) ==
    [studentId |-> Or(Cell(row, "studentId"),
                      Or(Cell(row, "ID"), Or(Cell(row, "Student ID"), ""))),
     name |-> Or(Cell(row, "name"),
                 Or(Cell(row, "Name"), Or(Cell(row, "Student Name"), "Unknown"))),
     class |-> Or(Cell(row, "class"),
                  Or(Cell(row, "Class"),
                     Or(Cell(row, "grade"), Or(Cell(row, "Grade"), "N/A"))))]

HasStudentId(p) == p.studentId # ""

\* the profiles of all rows, with or without an identifier
parseRosterFile_AllRows(sheet) == [i \in DOMAIN sheet |-> ProfileOf(sheet[i])]

\* excelService.ts lines 29-55, the promise resolved: the profiles of the rows
\* that have an identifier, in the order of the rows
parseRosterFile(sheet) ==
    SelectSeq([i \in DOMAIN sheet |-> ProfileOf(sheet[i])], HasStudentId)

\* excelService.ts lines 6-14: the rows exported for the records
exportToExcel(recs) ==
    [i \in DOMAIN recs |->
        ("Student Name" :> recs[i].name) @@ ("Student ID" :> recs[i].studentId)
        @@ ("Class" :> recs[i].class) @@ ("Arrival Time" :> recs[i].arrivalTime)
        @@ ("Date" :> recs[i].date) @@ ("Status" :> recs[i].status)
        @@ ("Verified" :> IF recs[i].isVerified THEN "Yes" ELSE "No")]

\* The rows written to a workbook (lines 16-26) and read back from the file
\* (lines 35-38): a text cell that is empty gives no entry in the row read
TextColumns == {"Student Name", "Student ID", "Class"}
WorkbookRows(rows) ==
    [i \in DOMAIN rows |->
        LET kept == { k \in DOMAIN rows[i] : k \in TextColumns => rows[i][k] # "" }
        IN  [k \in kept |-> rows[i][k]]]

\* The sheets imported: S1 once; S1 twice under other headers, the first row
\* without a class; a row without an identifier; another student
Sheets ==
    { << [studentId |-> "S1", name |-> "Ann", class |-> "1A"] >>,
      << ("ID" :> "S1") @@ ("Name" :> "Bob"),
         [studentId |-> "S1", name |-> "Ann", class |-> "1A"] >>,
      << ("Name" :> "Cy") @@ ("Class" :> "1B") >>,
      << ("Student ID" :> "S2") @@ ("Student Name" :> "Bea") @@ ("Grade" :> "2") >> }

----------------------------------------------------------------------------
(* handleRosterUpload, lines 133-149, when parseRosterFile resolves *)

handleRosterUpload(s, profiles) ==
    /\ mounted[s]
    /\ roster' = [roster EXCEPT ![s] = profiles]
    /\ ls' = [ls EXCEPT ![s].roster = <<JSONstringify(profiles)>>]
    /\ last' = [op |-> "upload", st |-> s, arg |-> ""]
    /\ UNCHANGED <<input, output, aiAnalysis, isAnalyzing, mounted,
                   records, isScanning, lastScanned, syncCode, isSyncing,
                   lastSyncActivity, subs, seen, localGun, graph, up, clock>>

\* excelService.ts lines 33-52: the file is read and parsed, or XLSX.read or
\* the FileReader fails and the promise is rejected
ReadOutcomes == {"read", "unreadable"}

\* lines 133-149 for the file chosen: setRoster with the parsed profiles (line
\* 139) and the persist effect of lines 116-118, or the catch of lines 141-143
RosterImport(s, sheet, outcome) ==
    IF outcome = "read"
    THEN handleRosterUpload(s, parseRosterFile(sheet))
    ELSE /\ mounted[s]
         /\ last' = [op |-> "upload", st |-> s, arg |-> "failed"]
         /\ UNCHANGED <<input, output, aiAnalysis, isAnalyzing, mounted,
                        records, roster, isScanning, lastScanned, syncCode,
                        isSyncing, lastSyncActivity, ls, subs, seen, localGun,
                        graph, up, clock>>

----------------------------------------------------------------------------
(* chartData, lines 239-246 *)

\* line 242: r.arrivalTime.split(':')[0], the text before the first colon
HourOf(arrivalTime) == SubSeq(arrivalTime, 1, 2)

\* a bucket set to one at every record
AddHour_Reset(hours, hour) ==
    IF \E k \in DOMAIN hours : hours[k].time = hour
    THEN [k \in DOMAIN hours |->
             IF hours[k].time = hour THEN [time |-> hour, count |-> 1] ELSE hours[k]]
    ELSE Append(hours, [time |-> hour, count |-> 1])

\* line 243: hours[hour] = (hours[hour] || 0) + 1, the keys in insertion order
AddHour(hours, hour) ==
    IF \E k \in DOMAIN hours : hours[k].time = hour
    THEN [k \in DOMAIN hours |->
             IF hours[k].time = hour
             THEN [time |-> hour, count |-> hours[k].count + 1]
             ELSE hours[k]]
    ELSE Append(hours, [time |-> hour, count |-> 1])

\* lines 240-245: records.forEach from the first record on, then Object.entries
RECURSIVE chartData(_)
chartData(recs) ==
    IF recs = <<>> THEN <<>>
    ELSE LET n == Len(recs)
         IN  AddHour(chartData(SubSeq(recs, 1, n - 1)), HourOf(recs[n].arrivalTime))

----------------------------------------------------------------------------
(* runAnalysis, lines 226-237, and analyzeLateArrivals (geminiService.ts) *)

\* What the text-generation service does with one call: the client cannot be
\* constructed, generateContent rejects, the response has no text, or it has one
Services == {"noClient", "rejects", "noText", "text"}

\* geminiService.ts lines 4-38: how the promise settles.  new GoogleGenAI (line 6)
\* is outside the try block of lines 22-37.
analyzeLateArrivals(recs, service) ==
    IF service = "noClient"
    THEN [settled |-> "rejected", value |-> ""]
    ELSE IF service = "rejects"
    THEN [settled |-> "fulfilled",
          value |-> "Unable to generate insights at this moment."]
    ELSE IF service = "noText"
    THEN [settled |-> "fulfilled", value |-> "No specific trends identified yet."]
    ELSE [settled |-> "fulfilled", value |-> "insights"]

\* lines 226-228: the button (lines 606-625) is there with two records or more,
\* no analysis shown and none under way
runAnalysis(s) ==
    /\ mounted[s]
    /\ Len(records[s]) >= 2
    /\ aiAnalysis[s] = <<>>
    /\ ~isAnalyzing[s]
    /\ isAnalyzing' = [isAnalyzing EXCEPT ![s] = TRUE]
    /\ last' = [op |-> "analyze", st |-> s, arg |-> ""]
    /\ UNCHANGED <<input, output, aiAnalysis, mounted, records, roster, isScanning, lastScanned,
                   syncCode, isSyncing, lastSyncActivity, ls, subs, seen,
                   localGun, graph, up, clock>>

\* lines 229-236: the promise of analyzeLateArrivals settles
analysisSettles(s, service) ==
    /\ mounted[s]
    /\ isAnalyzing[s]
    /\ LET result == analyzeLateArrivals(records[s], service)
       IN  /\ aiAnalysis' = [aiAnalysis EXCEPT
                                ![s] = IF result.settled = "fulfilled"
                                       THEN <<result.value>> ELSE @]
           /\ last' = [op |-> "analysis", st |-> s, arg |-> result.settled]
    /\ isAnalyzing' = [isAnalyzing EXCEPT ![s] = FALSE]
    /\ UNCHANGED <<input, output, mounted, records, roster, isScanning, lastScanned, syncCode,
                   isSyncing, lastSyncActivity, ls, subs, seen, localGun, graph,
                   up, clock>>

\* line 634: the Dismiss button
dismissAnalysis(s) ==
    /\ mounted[s]
    /\ aiAnalysis[s] # <<>>
    /\ aiAnalysis' = [aiAnalysis EXCEPT ![s] = <<>>]
    /\ last' = [op |-> "dismiss", st |-> s, arg |-> ""]
    /\ UNCHANGED <<input, output, isAnalyzing, mounted, records, roster, isScanning, lastScanned,
                   syncCode, isSyncing, lastSyncActivity, ls, subs, seen,
                   localGun, graph, up, clock>>

----------------------------------------------------------------------------
(* A restart: the page is loaded again, lines 51-63, and the mount effects run *)

\* the page loaded without reading the stored code
InitialSyncCode_None(s) == <<>>

\* line 60
InitialSyncCode(s) == ls[s].code

\* what Gun's own browser storage gives back of the station's puts: all or nothing
StoredPuts(s) == { localGun[s], {} }

Restart(s) ==
    LET code == InitialSyncCode(s)
        recs == LoadedRecords(s, code, <<>>)
        rost == LoadedRoster(s, <<>>)
    IN  /\ IF LoadThrows(s, code)
           THEN /\ EffectThrows(s, code)
                /\ ls' = ls
                /\ last' = [op |-> "restart", st |-> s, arg |-> "throws"]
           ELSE /\ syncCode' = [syncCode EXCEPT ![s] = code]
                /\ records' = [records EXCEPT ![s] = recs]
                /\ roster' = [roster EXCEPT ![s] = rost]
                /\ isScanning' = [isScanning EXCEPT ![s] = FALSE]
                /\ lastScanned' = [lastScanned EXCEPT ![s] = <<>>]
                /\ isSyncing' = [isSyncing EXCEPT ![s] = code # <<>>]
                /\ lastSyncActivity' = [lastSyncActivity EXCEPT ![s] = 0]
                /\ aiAnalysis' = [aiAnalysis EXCEPT ![s] = <<>>]
                /\ isAnalyzing' = [isAnalyzing EXCEPT ![s] = FALSE]
                /\ mounted' = [mounted EXCEPT ![s] = TRUE]
                /\ subs' = [subs EXCEPT ![s] = SubsFor(code)]
                /\ seen' = [seen EXCEPT ![s] = {}]
                /\ ls' = [ls EXCEPT ![s].roster = <<JSONstringify(rost)>>,
                                    ![s].att = PersistedAtt(code, @, recs)]
                /\ last' = [op |-> "restart", st |-> s, arg |-> ""]
        /\ \E kept \in StoredPuts(s) : localGun' = [localGun EXCEPT ![s] = kept]
        /\ UNCHANGED <<input, output, graph, up, clock>>

----------------------------------------------------------------------------
(* The environment: the relay peers and the other stations *)

\* a put of station s reaches a relay peer
Relay(s, e) ==
    /\ up
    /\ e \in localGun[s] \ graph
    /\ graph' = graph \cup {e}
    /\ last' = [op |-> "env", st |-> 0, arg |-> ""]
    /\ UNCHANGED <<input, output, aiAnalysis, isAnalyzing, mounted,
                   records, roster, isScanning, lastScanned, syncCode, isSyncing,
                   lastSyncActivity, ls, subs, seen, localGun, up, clock>>

\* the relay peers become unreachable, or reachable again
SetReachable(b) ==
    /\ up # b
    /\ up' = b
    /\ last' = [op |-> "env", st |-> 0, arg |-> ""]
    /\ UNCHANGED <<input, output, aiAnalysis, isAnalyzing, mounted,
                   records, roster, isScanning, lastScanned, syncCode, isSyncing,
                   lastSyncActivity, ls, subs, seen, localGun, graph, clock>>

\* another station of the room scans scannedId against its roster list, and its
\* put (lines 165-187) reaches a relay peer
PeerPut(code, list, scannedId) ==
    /\ clock < MaxClock
    /\ code # <<>>
    /\ graph' = PutsAfterScan(graph, code, ResultRecord(list, scannedId, clock))
    /\ graph' # graph
    /\ clock' = clock + 1
    /\ last' = [op |-> "env", st |-> 0, arg |-> ""]
    /\ UNCHANGED <<input, output, aiAnalysis, isAnalyzing, mounted,
                   records, roster, isScanning, lastScanned, syncCode, isSyncing,
                   lastSyncActivity, ls, subs, seen, localGun, up>>

\* Date.now() (line 166) is the clock of the device: another station of the room
\* scans scannedId against its roster list while its own clock reads now, a
\* reading this station's clock has shown or shows, and its put reaches a relay peer
PeerPutAt(code, list, scannedId, now) ==
    /\ code # <<>>
    /\ graph' = PutsAfterScan(graph, code, ResultRecord(list, scannedId, now))
    /\ graph' # graph
    /\ last' = [op |-> "env", st |-> 0, arg |-> ""]
    /\ UNCHANGED <<input, output, aiAnalysis, isAnalyzing, mounted,
                   records, roster, isScanning, lastScanned, syncCode, isSyncing,
                   lastSyncActivity, ls, subs, seen, localGun, up, clock>>

\* localStorage of station s is changed from outside the app (site data cleared,
\* a value cut short or overwritten): the key is removed or holds text that
\* is not JSON
StorageItems == {"roster", "att"}
DamagedItems == { <<>>, <<Unparseable>> }

StorageDamaged(s, key, item) ==
    /\ ls[s][key] # item
    /\ ls' = [ls EXCEPT ![s][key] = item]
    /\ last' = [op |-> "env", st |-> 0, arg |-> ""]
    /\ UNCHANGED <<input, output, aiAnalysis, isAnalyzing, mounted,
                   records, roster, isScanning, lastScanned, syncCode, isSyncing,
                   lastSyncActivity, subs, seen, localGun, graph, up, clock>>

----------------------------------------------------------------------------
(* Spec: the station under study with its scanner, room code, clear, roster
   import and restart in use; the other stations of its rooms appear through
   what they put *)

Operated == {1}
PeerCodes == { <<"A">> }
PeerRosters == { <<>> }

Next ==
    \/ \E b \in BOOLEAN : SetReachable(b)
    \/ \E code \in PeerCodes : \E list \in PeerRosters :
          \E scannedId \in StudentIds : PeerPut(code, list, scannedId)
    \/ \E s \in Operated :
        \/ \E scannedId \in StudentIds : handleScanSuccess(s, scannedId)
        \/ \E room \in subs[s] : \E data \in Available(s, room) : Deliver(s, room, data)
        \/ \E code \in CodeInputs : saveSyncCode(s, code)
        \/ clearRecords(s)
        \/ \E profiles \in RosterFiles : handleRosterUpload(s, profiles)
        \/ Restart(s)
        \/ \E e \in localGun[s] : Relay(s, e)

Spec == Init /\ [][Next]_vars

----------------------------------------------------------------------------
(* RoomSpec: two stations that join and leave room A and scan, neither clearing
   its list (no clearRecords, no restart, no saving of the code already in use) *)

RoomCodes == { <<>>, <<"A">> }

RoomNext ==
    \E s \in Stations :
        \/ \E scannedId \in StudentIds : handleScanSuccess(s, scannedId)
        \/ \E room \in subs[s] : \E data \in Available(s, room) : Deliver(s, room, data)
        \/ \E code \in RoomCodes : Trim(code) # syncCode[s] /\ saveSyncCode(s, code)
        \/ \E e \in localGun[s] : Relay(s, e)

RoomSpec == Init /\ [][RoomNext]_vars

----------------------------------------------------------------------------
(* AnalysisSpec: a standalone station that imports a roster, scans, asks for
   the summary, clears and restarts, against a text-generation service that
   fails in every way *)

AnalysisNext ==
    \E s \in Operated :
        \/ \E sheet \in Sheets : handleRosterUpload(s, parseRosterFile(sheet))
        \/ \E scannedId \in StudentIds : handleScanSuccess(s, scannedId)
        \/ runAnalysis(s)
        \/ \E service \in Services : analysisSettles(s, service)
        \/ dismissAnalysis(s)
        \/ clearRecords(s)
        \/ Restart(s)

AnalysisSpec == Init /\ [][AnalysisNext]_vars

----------------------------------------------------------------------------
(* ClearSpec: two stations that join room A, scan and clear their views *)

ClearNext ==
    \E s \in Stations :
        \/ \E scannedId \in StudentIds : handleScanSuccess(s, scannedId)
        \/ \E room \in subs[s] : \E data \in Available(s, room) : Deliver(s, room, data)
        \/ syncCode[s] = <<>> /\ saveSyncCode(s, <<"A">>)
        \/ \E e \in localGun[s] : Relay(s, e)
        \/ clearRecords(s)

ClearSpec == Init /\ [][ClearNext]_vars

----------------------------------------------------------------------------
(* InboundSpec: a station that joins room A and scans while another station
   puts records to the room and the relay peers come and go, its listener
   called with every kind of payload *)

InboundNext ==
    \/ \E b \in BOOLEAN : SetReachable(b)
    \/ \E code \in PeerCodes : \E list \in PeerRosters :
          \E scannedId \in StudentIds : PeerPut(code, list, scannedId)
    \/ \E s \in Operated :
        \/ \E scannedId \in StudentIds : handleScanSuccess(s, scannedId)
        \/ \E room \in subs[s] : \E data \in Available(s, room) : Deliver(s, room, data)
        \/ \E room \in subs[s] : \E data \in MalformedPayloads : Deliver(s, room, data)
        \/ syncCode[s] = <<>> /\ saveSyncCode(s, <<"A">>)

InboundSpec == Init /\ [][InboundNext]_vars

----------------------------------------------------------------------------
(* ClassifySpec: the record of lines 160-174 built for one scan, at any time
   of day, on any day, against any roster, under either hour cycle *)

Hours == {0, 8, 9, 23}
Minutes == {0, 29, 30, 31, 59}
Seconds == {0, 59}
Days == {0, 1}
ClassifyRosters ==
    { <<>>, << [studentId |-> "S1", name |-> "Ann", class |-> "1A"] >> }

ClassifyInit ==
    /\ StationsInit
    /\ input \in [hour : Hours, minute : Minutes, second : Seconds, day : Days,
                   list : ClassifyRosters, hourCycle : HourCycles]
    /\ output = <<>>

Classify ==
    /\ output = <<>>
    /\ output' = << ResultRecordAt(input.list, "S1", 0, input.day,
                                   toLocaleTimeString(input.hour, input.minute,
                                                      input.second,
                                                      input.hourCycle)) >>
    /\ last' = [op |-> "classify", st |-> 0, arg |-> output'[1].status]
    /\ UNCHANGED <<input, records, roster, isScanning, lastScanned, syncCode,
                   isSyncing, lastSyncActivity, ls, subs, seen, localGun, graph,
                   up, clock, aiAnalysis, isAnalyzing, mounted>>

ClassifySpec == ClassifyInit /\ [][Classify]_vars

----------------------------------------------------------------------------
(* RosterSpec: a standalone station that imports sheets, scans, clears and
   restarts *)

RosterNext ==
    \E s \in Operated :
        \/ \E sheet \in Sheets : handleRosterUpload(s, parseRosterFile(sheet))
        \/ \E scannedId \in StudentIds : handleScanSuccess(s, scannedId)
        \/ clearRecords(s)
        \/ Restart(s)

RosterSpec == Init /\ [][RosterNext]_vars

----------------------------------------------------------------------------
(* CacheSpec: a station that imports a roster, scans, joins and leaves room A
   and restarts, while its localStorage items get removed or damaged *)

CacheNext ==
    \E s \in Operated :
        \/ \E profiles \in RosterFiles : handleRosterUpload(s, profiles)
        \/ \E scannedId \in StudentIds : handleScanSuccess(s, scannedId)
        \/ \E code \in RoomCodes : saveSyncCode(s, code)
        \/ \E key \in StorageItems : \E item \in DamagedItems :
              StorageDamaged(s, key, item)
        \/ Restart(s)

CacheSpec == Init /\ [][CacheNext]_vars

----------------------------------------------------------------------------
(* ExportSpec: a list of records, as scans against imported rosters build
   them, is exported and the exported file imported as a roster *)

MaxExport == 2

ExportIds == {"S1", "S2"}
ExportEvents ==
    { ResultRecordAt(parseRosterFile(sheet), id, stamp, 0, LATE_THRESHOLD) :
          sheet \in Sheets, id \in ExportIds, stamp \in {0, 1} }
ExportLists ==
    UNION { [1..n -> ExportEvents] : n \in 0..MaxExport }

ExportInit ==
    /\ StationsInit
    /\ input \in ExportLists
    /\ output = <<>>

ExportImport ==
    /\ output = <<>>
    /\ output' = << parseRosterFile(WorkbookRows(exportToExcel(input))) >>
    /\ last' = [op |-> "export", st |-> 0, arg |-> ""]
    /\ UNCHANGED <<input, records, roster, isScanning, lastScanned, syncCode,
                   isSyncing, lastSyncActivity, ls, subs, seen, localGun, graph,
                   up, clock, aiAnalysis, isAnalyzing, mounted>>

ExportSpec == ExportInit /\ [][ExportImport]_vars

----------------------------------------------------------------------------
(* DeviceClockSpec: a station that joins and leaves room A, scans and clears
   its list, while another station of the room, with a roster of its own and
   its own clock, scans too *)

DeviceRosters ==
    { << [studentId |-> "S1", name |-> "Ann", class |-> "1A"] >> }

DeviceClockNext ==
    \/ \E code \in PeerCodes : \E list \in DeviceRosters :
          \E scannedId \in StudentIds : \E now \in 0..clock :
              PeerPutAt(code, list, scannedId, now)
    \/ \E s \in Operated :
        \/ \E scannedId \in StudentIds : handleScanSuccess(s, scannedId)
        \/ \E room \in subs[s] : \E data \in Available(s, room) : Deliver(s, room, data)
        \/ \E code \in RoomCodes : Trim(code) # syncCode[s] /\ saveSyncCode(s, code)
        \/ clearRecords(s)

DeviceClockSpec == Init /\ [][DeviceClockNext]_vars

----------------------------------------------------------------------------
(* ImportSpec: a station that imports roster files, readable or not, scans,
   joins and leaves room A and restarts *)

ImportNext ==
    \E s \in Operated :
        \/ \E sheet \in Sheets : \E outcome \in ReadOutcomes :
              RosterImport(s, sheet, outcome)
        \/ \E scannedId \in StudentIds : handleScanSuccess(s, scannedId)
        \/ \E code \in RoomCodes : Trim(code) # syncCode[s] /\ saveSyncCode(s, code)
        \/ Restart(s)

ImportSpec == Init /\ [][ImportNext]_vars

----------------------------------------------------------------------------
(* ChartSpec: the chart computed for a list of records scanned at several
   hours, under either hour cycle *)

MaxChart == 3

ChartHours == {0, 8, 9}
ChartEvents ==
    { ResultRecordAt(<<>>, "S1", 0, 0, toLocaleTimeString(h, m, 0, hourCycle)) :
          h \in ChartHours, m \in {30}, hourCycle \in HourCycles }
ChartLists ==
    UNION { [1..n -> ChartEvents] : n \in 0..MaxChart }

ChartInit ==
    /\ StationsInit
    /\ input \in ChartLists
    /\ output = <<>>

Chart ==
    /\ output = <<>>
    /\ output' = << chartData(input) >>
    /\ last' = [op |-> "chart", st |-> 0, arg |-> ""]
    /\ UNCHANGED <<input, records, roster, isScanning, lastScanned, syncCode,
                   isSyncing, lastSyncActivity, ls, subs, seen, localGun, graph,
                   up, clock, aiAnalysis, isAnalyzing, mounted>>

ChartSpec == ChartInit /\ [][Chart]_vars

----------------------------------------------------------------------------
(* DecodeSpec: one scanned text, plain or JSON, is decoded and looked up in a
   roster as imported (its identifiers are strings, excelService.ts line 42) *)

FieldValues == {Undefined, Str(""), Str("S1"), Str("7"), Num(7), Num(0)}
ScanTexts ==
    { PlainText("S1"), JsonText(Num(7)), JsonText(Num(0)), JsonText(Null) }
    \cup { JsonText(Obj(studentId, id)) :
              studentId \in FieldValues, id \in {Undefined, Str("S1"), Num(7)} }
DecodeRosters ==
    { <<>>,
      << [studentId |-> Str("S1"), name |-> "Ann", class |-> "1A"] >>,
      << [studentId |-> Str("7"), name |-> "Bea", class |-> "1B"] >>,
      << [studentId |-> Str("S1"), name |-> "Ann", class |-> "1A"],
         [studentId |-> Str("7"), name |-> "Bea", class |-> "1B"] >> }

DecodeInit ==
    /\ StationsInit
    /\ input \in [decodedText : ScanTexts, list : DecodeRosters]
    /\ output = <<>>

Decode ==
    /\ output = <<>>
    /\ LET scannedId == DecodeScan(input.decodedText)
       IN  output' = << [scannedId |-> scannedId,
                         studentProfile |-> FindProfile(input.list, scannedId)] >>
    /\ last' = [op |-> "decode", st |-> 0, arg |-> ""]
    /\ UNCHANGED <<input, records, roster, isScanning, lastScanned, syncCode,
                   isSyncing, lastSyncActivity, ls, subs, seen, localGun, graph,
                   up, clock, aiAnalysis, isAnalyzing, mounted>>

DecodeSpec == DecodeInit /\ [][Decode]_vars

----------------------------------------------------------------------------
(* ScannerSpec: a station whose operator starts and stops the scanner, with
   frames decoded while it runs, joins and leaves room A and clears the list *)

ScannerNext ==
    \E s \in Operated :
        \/ toggleScanning(s)
        \/ \E scannedId \in StudentIds : \E audio \in AudioOutcomes :
              onScanSuccess(s, scannedId, audio)
        \/ \E code \in RoomCodes : Trim(code) # syncCode[s] /\ saveSyncCode(s, code)
        \/ clearRecords(s)

ScannerSpec == Init /\ [][ScannerNext]_vars

----------------------------------------------------------------------------
(* PartialSpec: a station that joins room A and scans while another station
   puts records to the room, its listener called with whole records and with
   nodes that lack fields; the page can be loaded again *)

PartialNext ==
    \/ \E code \in PeerCodes : \E list \in PeerRosters :
          \E scannedId \in StudentIds : PeerPut(code, list, scannedId)
    \/ \E s \in Operated :
        \/ \E scannedId \in StudentIds : handleScanSuccess(s, scannedId)
        \/ \E room \in subs[s] : \E data \in Available(s, room) : Deliver(s, room, data)
        \/ \E room \in subs[s] : \E data \in PartialPayloads :
              DeliverPartial(s, room, data)
        \/ syncCode[s] = <<>> /\ saveSyncCode(s, <<"A">>)
        \/ Restart(s)

PartialSpec == Init /\ [][PartialNext]_vars

----------------------------------------------------------------------------
(* Properties *)

\* the listener of s has been called with every put s made to its current room
PutsEchoed(s) ==
    \A e \in localGun[s] : e[1] = RoomOf(syncCode[s]) => e[2] \in seen[s]

\* C1 - Convergence: two stations in the same room whose listeners have been
\* called with the same records (in any order, any number of times), their own
\* puts included, hold lists with the same set of record ids.
C1_Convergence ==
    \A s, t \in Stations :
        (/\ syncCode[s] # <<>>
         /\ syncCode[s] = syncCode[t]
         /\ seen[s] = seen[t]
         /\ PutsEchoed(s) /\ PutsEchoed(t))
            => Ids(records[s]) = Ids(records[t])

\* two stations of a room, each delivered the same two or more records, the last
\* delivery that of a record already held
C1_Witness ==
    \E s, t \in Stations :
        /\ s # t
        /\ syncCode[s] # <<>> /\ syncCode[s] = syncCode[t]
        /\ seen[s] = seen[t] /\ Cardinality(seen[s]) >= 2
        /\ PutsEchoed(s) /\ PutsEchoed(t)
        /\ localGun[s] # {} /\ localGun[t] # {}
        /\ last = [op |-> "deliver", st |-> s, arg |-> "known"]

\* C2 - Idempotent merge: the listener called with a record whose id is already
\* in the station's list leaves the list as it is: same members, same payloads,
\* same order.
C2_IdempotentMerge ==
    [][\A s \in Stations : \A room \in subs[s] : \A data \in Available(s, room) :
          (Deliver(s, room, data) /\ HasId(records[s], data.id))
              => records'[s] = records[s]]_vars

\* a record delivered again to a station that holds it among others
C2_Witness ==
    \E s \in Stations :
        /\ last = [op |-> "deliver", st |-> s, arg |-> "known"]
        /\ Len(records[s]) >= 2
        /\ \E r \in seen[s] : r \in Elems(records[s])

\* C3 - Optimistic local apply: a scan classified Late puts its record in the
\* scanning station's list in the same step, with or without a room code and
\* whether or not a relay peer is reachable; no step of the relay peers (a put
\* arriving or not, reachability changing) alters any station's list.
C3_OptimisticApply ==
    [][/\ \A s \in Stations : \A scannedId \in StudentIds :
            (/\ handleScanSuccess(s, scannedId)
             /\ ResultRecord(roster[s], scannedId, clock).status = "Late")
                => ResultRecord(roster[s], scannedId, clock) \in Elems(records'[s])
       /\ (\/ \E b \in BOOLEAN : SetReachable(b)
           \/ \E s \in Stations : \E e \in localGun[s] : Relay(s, e))
              => records' = records]_vars

\* a Late scan in a room while no relay peer is reachable: the record is in the
\* list and has reached no relay
C3_Witness ==
    \E s \in Stations :
        /\ last = [op |-> "scan", st |-> s, arg |-> "Late"]
        /\ syncCode[s] # <<>>
        /\ ~up
        /\ lastScanned[s][1] \in Elems(records[s])
        /\ <<RoomOf(syncCode[s]), lastScanned[s][1]>> \notin graph

\* the records a localStorage item holds
StoredRecords(item) ==
    IF Truthy(item) /\ Parseable(item[1]) THEN Elems(JSONparse(item[1])) ELSE {}

\* C4 - Data minimization: no On-Time record is ever in a station's list, in its
\* attendance_records snapshot, among its puts or in a room's graph; a scan
\* classified On-Time changes lastScanned only (and ends the scanning).
C4_DataMinimization ==
    /\ [](/\ \A s \in Stations :
               /\ \A r \in Elems(records[s]) : r.status = "Late"
               /\ \A r \in StoredRecords(ls[s].att) : r.status = "Late"
               /\ \A e \in localGun[s] : e[2].status = "Late"
           /\ \A e \in graph : e[2].status = "Late")
    /\ [][\A s \in Stations : \A scannedId \in StudentIds :
            (/\ handleScanSuccess(s, scannedId)
             /\ ResultRecord(roster[s], scannedId, clock).status = "On-Time")
                => UNCHANGED <<records, ls, localGun, graph, roster, syncCode,
                               subs, seen>>]_vars

\* an On-Time scan at a station that holds Late records
C4_Witness ==
    \E s \in Stations :
        /\ last = [op |-> "scan", st |-> s, arg |-> "On-Time"]
        /\ lastScanned[s][1].status = "On-Time"
        /\ records[s] # <<>>

\* the rooms a record has been put to, as far as station s and the relays know
RoomsOf(s, r) == { e[1] : e \in { x \in localGun[s] \cup graph : x[2] = r } }

\* C5 - Room switch isolation: saving a non-empty room code leaves the station's
\* list empty, whatever it held; and while the code is a room's, every record in
\* the list is one put to that room (by this station or by another).
C5_RoomSwitchIsolation ==
    /\ [][\A s \in Stations : \A code \in CodeInputs :
            (saveSyncCode(s, code) /\ Trim(code) # <<>>) => records'[s] = <<>>]_vars
    /\ [](\A s \in Stations :
             syncCode[s] # <<>> =>
                 \A r \in Elems(records[s]) : RoomOf(syncCode[s]) \in RoomsOf(s, r))

\* a station that held records standalone has just joined room B
C5_Witness ==
    \E s \in Stations :
        /\ last = [op |-> "save", st |-> s, arg |-> "join"]
        /\ syncCode[s] = <<"B">>
        /\ StoredRecords(ls[s].att) # {}
        /\ records[s] = <<>>

\* C6 - Cancellation: a station listens to the room of its current code and to no
\* other (to none without a code); the listener admits a record only from that
\* room; and a record put to other rooms only is never in the list.
C6_Cancellation ==
    /\ [](\A s \in Stations :
             /\ subs[s] = SubsFor(syncCode[s])
             /\ \A r \in Elems(records[s]) :
                    RoomsOf(s, r) # {} =>
                        (syncCode[s] # <<>> /\ RoomOf(syncCode[s]) \in RoomsOf(s, r)))
    /\ [][\A s \in Stations : \A room \in subs[s] : \A data \in Available(s, room) :
            (Deliver(s, room, data) /\ records'[s] # records[s])
                => (syncCode[s] # <<>> /\ room = RoomOf(syncCode[s]))]_vars

\* a station that scanned in room A is in room B and has just had a delivery,
\* while the relays hold and offer its record of room A, which is not in its list
C6_Witness ==
    \E s \in Stations :
        /\ last.op = "deliver" /\ last.st = s
        /\ syncCode[s] = <<"B">>
        /\ up
        /\ \E e \in graph \cap localGun[s] :
               e[1] = RoomOf(<<"A">>) /\ e[2] \notin Elems(records[s])

\* C9 - Restart: without a persisted room code the list after a restart is the
\* list before it; with one, the snapshot is not loaded and the list starts
\* empty; the roster after the restart is the roster before it in both cases.
C9_Restart ==
    [][\A s \in Stations :
         Restart(s) =>
             /\ roster'[s] = roster[s]
             /\ ls[s].code = <<>> => records'[s] = records[s]
             /\ ls[s].code # <<>> => records'[s] = <<>>]_vars

\* a restart of a station in a room whose snapshot holds records, with a roster
C9_Witness ==
    \E s \in Stations :
        /\ last.op = "restart" /\ last.st = s
        /\ ls[s].code # <<>>
        /\ StoredRecords(ls[s].att) # {}
        /\ records[s] = <<>>
        /\ roster[s] # <<>>

\* a restart of a standalone station that holds records, with a roster
C9_WitnessStandalone ==
    \E s \in Stations :
        /\ last.op = "restart" /\ last.st = s
        /\ ls[s].code = <<>>
        /\ Len(records[s]) >= 2
        /\ roster[s] # <<>>

\* C10 - The snapshot is written only without a room code: no step taken by a
\* station whose code is non-empty, or that gives it a non-empty code, changes
\* its attendance_records item; without a code the item holds the list.
C10_SnapshotOnlyStandalone ==
    /\ [][\A s \in Stations :
            (syncCode[s] # <<>> \/ syncCode'[s] # <<>>)
                => ls'[s].att = ls[s].att]_vars
    /\ [](\A s \in Stations :
             syncCode[s] = <<>> => ls[s].att = <<JSONstringify(records[s])>>)

\* a Late scan in a room: the list has the record, the snapshot has not
C10_Witness ==
    \E s \in Stations :
        /\ last = [op |-> "scan", st |-> s, arg |-> "Late"]
        /\ syncCode[s] # <<>>
        /\ lastScanned[s][1] \in Elems(records[s])
        /\ lastScanned[s][1] \notin StoredRecords(ls[s].att)

\* the listener of s has been called with everything its rooms offer: Gun calls
\* it again only for a record that is new or changed
Quiet(s) == \A room \in subs[s] : Available(s, room) \subseteq seen[s]

\* C7 - Join delivery: after a station saves a non-empty room code, the code it
\* is already using included, every record the relays hold for that room gets
\* into its list while it stays in the room without clearing: so once the
\* listener has nothing left to deliver, the list holds them all.
C7_JoinDelivery ==
    \A s \in Stations :
        (/\ last.op = "save" /\ last.st = s
         /\ syncCode[s] # <<>>
         /\ up
         /\ Quiet(s))
            => \A e \in graph :
                   e[1] = RoomOf(syncCode[s]) => HasId(records[s], e[2].id)

\* C8 - Degraded mode: a station with a room code and no relay peer reachable
\* reports standalone status (isSyncing false) and has its Late records in the
\* attendance_records snapshot, from which a restart would reload them.
C8_DegradedMode ==
    \A s \in Stations :
        (syncCode[s] # <<>> /\ ~up) =>
            /\ ~isSyncing[s]
            /\ Elems(records[s]) \subseteq StoredRecords(ls[s].att)

\* C11 - Leaving deletes nothing: a station in a room that saves an empty code
\* leaves the relays' graph and its own puts as they are, and every record in
\* its list before the save is in its list after it.
C11_LeaveDeletesNothing ==
    [][\A s \in Stations : \A code \in CodeInputs :
         (/\ saveSyncCode(s, code)
          /\ syncCode[s] # <<>>
          /\ Trim(code) = <<>>)
             => /\ graph' = graph
                /\ localGun' = localGun
                /\ Elems(records[s]) \subseteq Elems(records'[s])]_vars

\* C17 - Summarization never fails towards the caller: whatever the service
\* does, the promise of analyzeLateArrivals is fulfilled (with a string; the
\* fixed fallback message when the service failed), never rejected, and
\* isAnalyzing is false once it has settled.
C17_AnalysisNeverRejects ==
    \A s \in Stations :
        (last.op = "analysis" /\ last.st = s) =>
            /\ last.arg = "fulfilled"
            /\ aiAnalysis[s] # <<>>
            /\ ~isAnalyzing[s]

\* C12 - Clearing the local view: clearRecords empties the clearing station's
\* list, last-scanned value and analysis text, and changes nothing else: no put
\* is made, the relays' graph is as it was, and so is every other station's list.
C12_ClearIsLocal ==
    [][\A s \in Stations :
         clearRecords(s) =>
             /\ records'[s] = <<>> /\ lastScanned'[s] = <<>> /\ aiAnalysis'[s] = <<>>
             /\ localGun' = localGun
             /\ graph' = graph
             /\ \A t \in Stations \ {s} : records'[t] = records[t]]_vars

\* a station in a room that was delivered records has just cleared its view,
\* while the relays hold records of the room and another station lists them
C12_Witness ==
    \E s, t \in Stations :
        /\ s # t
        /\ last = [op |-> "clear", st |-> s, arg |-> ""]
        /\ syncCode[s] # <<>> /\ syncCode[t] = syncCode[s]
        /\ seen[s] # {} /\ records[s] = <<>>
        /\ records[t] # <<>>
        /\ \E e \in graph : e[1] = RoomOf(syncCode[s]) /\ e[2] \in Elems(records[t])

\* C13 - Inbound admission: the listener called with an empty payload or one
\* without an id changes nothing; called with a record whose id is new, it adds
\* that one record to the list; called with a record whose id is in the list,
\* it changes neither the list nor lastSyncActivity.
C13_InboundAdmission ==
    [][\A s \in Stations : \A room \in subs[s] :
         /\ \A data \in MalformedPayloads :
                Deliver(s, room, data) =>
                    UNCHANGED <<records, ls, seen, lastSyncActivity, aiAnalysis,
                                isAnalyzing, mounted, roster, isScanning,
                                lastScanned, syncCode, isSyncing, subs, localGun,
                                graph, up, clock>>
         /\ \A data \in Available(s, room) :
                Deliver(s, room, data) =>
                    IF HasId(records[s], data.id)
                    THEN /\ records'[s] = records[s]
                         /\ lastSyncActivity'[s] = lastSyncActivity[s]
                    ELSE /\ data \in Elems(records'[s])
                         /\ Len(records'[s]) = Len(records[s]) + 1
                         /\ Elems(records[s]) \subseteq Elems(records'[s])]_vars

\* the zero-padded 24-hour HH:MM string of the time h:m
HHMM(h, m) == << h \div 10, h % 10, m \div 10, m % 10 >>

\* C14 - Classification: the status of a scan is Late exactly when the
\* zero-padded 24-hour HH:MM string of its time is lexicographically at or
\* after "08:30", whatever the second, the day and the roster.
C14_Classification ==
    output # <<>> =>
        (output[1].status = "Late"
            <=> LexGE(HHMM(input.hour, input.minute), LATE_THRESHOLD))

\* C15 - Roster resolution: a scan whose identifier is in no roster entry gives
\* a record with isVerified false, name "Unregistered Student" and class "N/A",
\* which is in the list when Late; a scan whose identifier is in a roster entry
\* gives a record with isVerified true and the name and class of such an entry.
C15_RosterResolution ==
    [][\A s \in Stations : \A scannedId \in StudentIds :
         handleScanSuccess(s, scannedId) =>
             LET matches == { i \in DOMAIN roster[s] :
                                roster[s][i].studentId = scannedId }
                 r == lastScanned'[s][1]
             IN  IF matches = {}
                 THEN /\ ~r.isVerified
                      /\ r.name = "Unregistered Student"
                      /\ r.class = "N/A"
                      /\ r.status = "Late" => r \in Elems(records'[s])
                 ELSE /\ r.isVerified
                      /\ \E i \in matches : /\ r.name = roster[s][i].name
                                             /\ r.class = roster[s][i].class]_vars

\* a Late scan resolved against a roster with two entries for the identifier,
\* at a station whose list also holds a record of a scan that was not resolved
C15_Witness ==
    \E s \in Stations :
        /\ last = [op |-> "scan", st |-> s, arg |-> "Late"]
        /\ lastScanned[s][1].isVerified
        /\ lastScanned[s][1] \in Elems(records[s])
        /\ Len(roster[s]) >= 2
        /\ \E r \in Elems(records[s]) : ~r.isVerified

\* the localStorage item is missing or is not parseable
Damaged(item) == ~Truthy(item) \/ ~Parseable(item[1])

\* C16 - Cache corruption: a restart that finds the roster item or the
\* attendance_records item missing or unparseable leaves the station mounted
\* (running, accepting scans), with an empty roster for a damaged roster item
\* and an empty list for a damaged attendance_records item.
C16_CacheCorruption ==
    [][\A s \in Stations :
         Restart(s) =>
             /\ (Damaged(ls[s].roster) \/ Damaged(ls[s].att)) => mounted'[s]
             /\ Damaged(ls[s].roster) => roster'[s] = <<>>
             /\ Damaged(ls[s].att) => records'[s] = <<>>]_vars

C19_DisplayOrder ==
    \A s \in Stations :
        \A i \in 1..(Len(records[s]) - 1) :
            LexGE(records[s][i].arrivalTime, records[s][i + 1].arrivalTime)

\* C20 - Interleaving safety: however Late scans and inbound deliveries
\* interleave on a station, each of them keeps every record the list held, and
\* in every reachable state no two entries of a list have the same id.
C20_InterleavingSafety ==
    /\ [](\A s \in Stations :
             \A i, j \in DOMAIN records[s] :
                 i # j => records[s][i].id # records[s][j].id)
    /\ [][\A s \in Stations :
            (\/ \E scannedId \in StudentIds : handleScanSuccess(s, scannedId)
             \/ \E room \in subs[s] : \E data \in Available(s, room) :
                   Deliver(s, room, data))
                => Elems(records[s]) \subseteq Elems(records'[s])]_vars

\* a station in a room whose list holds a record it scanned and a record another
\* station put, and whose listener has just been called with a record it holds
C20_Witness ==
    \E s \in Stations :
        /\ syncCode[s] # <<>>
        /\ last = [op |-> "deliver", st |-> s, arg |-> "known"]
        /\ \E r1, r2 \in Elems(records[s]) :
               /\ <<RoomOf(syncCode[s]), r1>> \in localGun[s]
               /\ <<RoomOf(syncCode[s]), r2>> \in graph \ localGun[s]

\* every event a station holds, has put, or a relay peer holds
AllEvents ==
    UNION { Elems(records[s]) : s \in Stations }
    \cup { e[2] : e \in graph \cup UNION { localGun[s] : s \in Stations } }

\* C21 - Event ids are globally unique: two events that exist anywhere (in a
\* station's list, among its puts, at a relay peer) under the same id are one
\* and the same event, and an event a station's listener was called with is
\* never kept out of its list by a different event that has its id.
C21_GlobalIds ==
    /\ \A e, f \in AllEvents : e.id = f.id => e = f
    /\ \A s \in Stations : \A d \in seen[s] : \A i \in DOMAIN records[s] :
          records[s][i].id = d.id => records[s][i] = d

\* C22 - One room at a time: a station has at most one listener, the one of the
\* room of its current code; with an empty code it has none, it puts nothing
\* and its listener is not called; a Late record scanned while the code is R is
\* put into the room of R and nowhere else.
C22_OneRoom ==
    /\ [](\A s \in Stations :
             /\ Cardinality(subs[s]) <= 1
             /\ subs[s] \subseteq SubsFor(syncCode[s])
             /\ mounted[s] => subs[s] = SubsFor(syncCode[s]))
    /\ [][\A s \in Stations :
             /\ syncCode[s] = <<>> => localGun'[s] \subseteq localGun[s]
             /\ (\E room \in subs[s] : \E data \in Available(s, room) :
                    Deliver(s, room, data)) => syncCode[s] # <<>>
             /\ \A scannedId \in StudentIds :
                   (handleScanSuccess(s, scannedId)
                    /\ lastScanned'[s][1].status = "Late")
                   => LET put == <<RoomOf(syncCode[s]), lastScanned'[s][1]>>
                      IN  /\ localGun'[s] \ localGun[s] \subseteq {put}
                          /\ syncCode[s] # <<>> => put \in localGun'[s]
                          /\ \A e \in localGun'[s] \cup graph' :
                                e[2] = lastScanned'[s][1] => e = put
         ]_vars

\* a Late record was put into room B by a station that had put one into room A
C22_Witness ==
    /\ last = [op |-> "scan", st |-> 1, arg |-> "Late"]
    /\ syncCode[1] = <<"B">>
    /\ subs[1] = {RoomOf(<<"B">>)}
    /\ <<RoomOf(<<"B">>), lastScanned[1][1]>> \in localGun[1]
    /\ \E e \in localGun[1] : e[1] = RoomOf(<<"A">>)

\* C23 - Events are immutable once admitted: a list never holds two records of
\* one id; a scan or a delivery, also one that carries the id of a stored record
\* with another payload, keeps every stored record as it is; a clear, a join or
\* a leave removes the records all at once, never one of them.
C23_Immutable ==
    /\ [](\A s \in Stations : \A i, j \in DOMAIN records[s] :
             records[s][i].id = records[s][j].id => i = j)
    /\ [][\A s \in Stations :
             IF clearRecords(s) \/ \E code \in RoomCodes : saveSyncCode(s, code)
             THEN \/ Elems(records[s]) \subseteq Elems(records'[s])
                  \/ Elems(records[s]) \cap Elems(records'[s]) = {}
             ELSE Elems(records[s]) \subseteq Elems(records'[s])
         ]_vars

\* the station's listener was called with the record of its own scan, whose id
\* its list already held with the payload another station had put
C23_Witness ==
    /\ last = [op |-> "deliver", st |-> 1, arg |-> "known"]
    /\ lastScanned[1] # <<>>
    /\ lastScanned[1][1].status = "Late"
    /\ lastScanned[1][1] \in seen[1]
    /\ HasId(records[1], lastScanned[1][1].id)
    /\ lastScanned[1][1] \notin Elems(records[1])

\* r is code without the spaces at its two ends
Trimmed(code, r) ==
    /\ r # <<>> => ~IsSpace(r[1]) /\ ~IsSpace(r[Len(r)])
    /\ \E a, b \in 0..Len(code) :
          /\ a + Len(r) + b = Len(code)
          /\ SubSeq(code, a + 1, a + Len(r)) = r
          /\ \A k \in (1..a) \cup ((Len(code) - b + 1)..Len(code)) : IsSpace(code[k])

\* C24 - Persisted room code: the code stored in localStorage is the code in
\* use; after saveSyncCode(code) both are the input without the spaces at its
\* ends (nothing, for an input of spaces only); a page reload keeps the code
\* that was in use.
C24_PersistedCode ==
    /\ [](\A s \in Stations : ls[s].code = syncCode[s])
    /\ [][\A s \in Stations :
             /\ last'.op = "save"
                => \A code \in CodeInputs :
                      saveSyncCode(s, code)
                      => /\ Trimmed(code, syncCode'[s])
                         /\ ls'[s].code = syncCode'[s]
                         /\ subs'[s] \subseteq SubsFor(syncCode'[s])
             /\ last'.op = "restart"
                => (Restart(s)
                    => syncCode'[s] = syncCode[s] /\ ls'[s].code = ls[s].code)
         ]_vars

\* the page was reloaded in room A, a code that was saved with a space after it
C24_Witness ==
    /\ last = [op |-> "restart", st |-> 1, arg |-> ""]
    /\ syncCode[1] = <<"A">>
    /\ ls[1].code = <<"A">>
    /\ subs[1] = {RoomOf(<<"A">>)}

\* the rows of sheet that have an identifier under one of the headers read
IdentifiedRows(sheet) ==
    { i \in DOMAIN sheet :
         \E key \in {"studentId", "ID", "Student ID"} : Cell(sheet[i], key) # "" }

\* C25 - Roster import replaces the roster wholesale: after an import that
\* succeeds the roster holds one profile for each row of the file that has an
\* identifier, in the order of the rows, and nothing else, and the stored roster
\* is that list; after an import that fails the roster and the stored roster are
\* as before; no import changes the records, the stored records or the puts.
C25_RosterImport ==
    [][\A s \in Stations : \A sheet \in Sheets : \A outcome \in ReadOutcomes :
          (last'.op = "upload" /\ RosterImport(s, sheet, outcome))
          => /\ records'[s] = records[s]
             /\ ls'[s].att = ls[s].att
             /\ localGun' = localGun /\ graph' = graph
             /\ IF outcome = "read"
                THEN /\ Len(roster'[s]) = Cardinality(IdentifiedRows(sheet))
                     /\ \A k \in DOMAIN roster'[s] :
                           \E i \in IdentifiedRows(sheet) :
                              /\ roster'[s][k] = ProfileOf(sheet[i])
                              /\ Cardinality({ j \in IdentifiedRows(sheet) : j <= i }) = k
                     /\ ls'[s].roster = <<JSONstringify(roster'[s])>>
                ELSE /\ roster'[s] = roster[s]
                     /\ ls'[s].roster = ls[s].roster
      ]_vars

\* a sheet without identifiers was imported by a station whose last scan was
\* resolved against the roster it had before: it has no roster left, and still
\* its records
C25_Witness ==
    /\ last = [op |-> "upload", st |-> 1, arg |-> ""]
    /\ roster[1] = <<>>
    /\ ls[1].roster = <<JSONstringify(<<>>)>>
    /\ lastScanned[1] # <<>>
    /\ lastScanned[1][1].isVerified
    /\ records[1] # <<>>

\* C26 - Roster key uniqueness: a roster never holds two entries with the same
\* studentId.
C26_RosterKeys ==
    \A s \in Stations : \A i, j \in DOMAIN roster[s] :
        roster[s][i].studentId = roster[s][j].studentId => i = j

\* the sum of the counts of a chart
RECURSIVE SumCounts(_)
SumCounts(view) ==
    IF view = <<>> THEN 0 ELSE Head(view).count + SumCounts(Tail(view))

\* C27 - Hourly aggregation: the chart has one bucket for each hour at which
\* the list has a record and no other, the count of a bucket is the number of
\* records of the list at that hour, no count is zero, and the counts add up to
\* the length of the list.
C27_HourlyAggregation ==
    output # <<>>
    => LET view == output[1]
       IN  /\ \A k \in DOMAIN view :
                 /\ view[k].count =
                       Cardinality({ i \in DOMAIN input :
                                        HourOf(input[i].arrivalTime) = view[k].time })
                 /\ view[k].count > 0
                 /\ \A j \in DOMAIN view : view[j].time = view[k].time => j = k
           /\ \A i \in DOMAIN input :
                 \E k \in DOMAIN view : view[k].time = HourOf(input[i].arrivalTime)
           /\ SumCounts(view) = Len(input)

\* a chart of two buckets for three records, two of them at the same hour
C27_Witness ==
    /\ last.op = "chart"
    /\ Len(input) = 3
    /\ Len(output[1]) = 2
    /\ \E k \in DOMAIN output[1] : output[1][k].count = 2

\* the scanned text that reads t
TextReading(t) == CHOOSE text \in ScanTexts : text.raw = t

\* C28 - Scan decoding: the identifier of a scanned text is its studentId field
\* when the text is a JSON object with a non-empty studentId, else its id field
\* when that is not empty, else the text itself; and an identifier taken from
\* a field finds in the roster what a scan of the identifier as plain text finds.
C28_ScanDecoding ==
    output # <<>>
    => LET decodedText == input.decodedText
           scannedId == output[1].scannedId
           structured == /\ Parseable(decodedText)
                         /\ "object" \in DOMAIN JSONparse(decodedText)
           fields == JSONparse(decodedText).object
       IN  /\ IF structured /\ JsTruthy(fields.studentId)
              THEN scannedId = fields.studentId
              ELSE IF structured /\ JsTruthy(fields.id)
              THEN scannedId = fields.id
              ELSE scannedId = Str(decodedText.raw)
           /\ scannedId # Str(decodedText.raw)
              => output[1].studentProfile =
                    FindProfile(input.list,
                                DecodeScan(TextReading(JsString(scannedId))))

\* C29 - One event per scan: the handling of a decoded frame adds at most one
\* record to the list and ends with scanning switched off, so that no further
\* frame is handled before the operator starts the scanner again.
C29_OneEventPerScan ==
    [][\A s \in Stations : \A scannedId \in StudentIds : \A audio \in AudioOutcomes :
          onScanSuccess(s, scannedId, audio)
          => /\ ~isScanning'[s]
             /\ Len(records'[s]) <= Len(records[s]) + 1
      ]_vars

\* C30 - Inbound merge never fails: every record of a list has an arrivalTime,
\* and when the listener is called with a payload that has an id, with or
\* without an arrivalTime, while the list is not empty, the app stays up and
\* the list holds a record of that id.
C30_InboundMergeNeverFails ==
    /\ [](\A s \in Stations : \A i \in DOMAIN records[s] :
             "arrivalTime" \in DOMAIN records[s][i])
    /\ [][\A s \in Stations : \A room \in subs[s] :
             /\ \A data \in Available(s, room) :
                   (records[s] # <<>> /\ Deliver(s, room, data))
                   => mounted'[s] /\ HasId(records'[s], data.id)
             /\ \A data \in PartialPayloads :
                   (records[s] # <<>> /\ DeliverPartial(s, room, data))
                   => mounted'[s] /\ HasId(records'[s], data.id)
         ]_vars

====
